---- MODULE Spec2Model ----
(***************************************************************************)
(* ics::HashMap<KEY,T,thash> of hash_map.hpp with KEY = std::string: a     *)
(* chained hash table whose bins each end in a trailer node, and its       *)
(* fail-fast Iterator.  The heap of LN nodes is modelled explicitly: the   *)
(* code removes a node by copying its successor over it, and it compares   *)
(* keys of trailer nodes, so node identity and trailer contents matter.    *)
(***************************************************************************)
EXTENDS Integers, Sequences, FiniteSets, TLC

\* ---------------------------------------------------------------- bounds
MaxMod == 2            \* structural mutations explored per behaviour
MaxBins == 4           \* no doubling beyond this many bins
MaxPuts == 3           \* insertions into the table that is filled

\* ------------------------------------------------------------ value sets
Keys == {"", "a", "b"}        \* KEY = std::string; "" is KEY()
Values == {0, 1}              \* T; 0 is T()
HashVals == {0, -1}           \* results of the caller's hash function
HashFuns == {h \in [Keys -> HashVals] : h["b"] = 0}
Iters == {1, 2}               \* iterator objects the caller holds
InitBins == {1, 2}            \* bins after the default and the bins constructor
INT_MIN == -2147483647 - 1    \* the least int
INT_MAX == 2147483647         \* the greatest int
\* results of a hash function over the whole range of int
IntHashVals == {INT_MIN, -1, 0, INT_MAX}
IntHashFuns == {h \in [Keys -> IntHashVals] : h["b"] = 0}
\* initial_bins for which "new LN*[bins]" succeeds
AcceptedBins == 0..3
LoadThresholds == {3, 4}      \* the_load_threshold in quarters: 0.75, 1.0

DefaultKey == ""
DefaultValue == 0
NULL == 0                     \* nullptr
NoKey == "-"                  \* "no key" in the record of the last call
NoVal == -1                   \* "no value" in records
STALE == -1                   \* a pointer to a node that was deleted or leaked
\* the caller holds no second table
NoTable == [hash |-> [k \in Keys |-> 0], load_threshold |-> 0, bins |-> 0,
            used |-> 0, mod_count |-> 0, map |-> <<>>, heap |-> <<>>]

VARIABLES
    hash,            \* int (*hash)(const KEY&): Keys -> HashVals
    load_threshold,  \* in quarters
    bins, used, mod_count,
    map,             \* [0..bins-1 -> node], the head of each bin
    heap,            \* allocated LN objects: node -> [key, val, next]
    iters,           \* Iters -> Iterator object (made = FALSE: not constructed)
    last,            \* the last call and its outcome
    ub,              \* the last call had undefined behaviour
    shadow,          \* Keys -> value last stored by the caller, NoVal if absent
    disturbed,       \* Iters -> table restructured behind the iterator's back
    other            \* a second HashMap object of the caller's, or NoTable

vars == <<hash, load_threshold, bins, used, mod_count, map, heap, iters,
          last, ub, shadow, disturbed, other>>

\* ------------------------------------------------------------ the LN heap
\* LN(): value is a default Entry, next is nullptr
TrailerNode == [key |-> DefaultKey, val |-> DefaultValue, next |-> NULL]

\* new LN: an address not in use
NewNode(hp) ==
    CHOOSE n \in 1..(Cardinality(DOMAIN hp) + 1) :
        /\ n \notin DOMAIN hp
        /\ \A m \in 1..(n - 1) : m \in DOMAIN hp

RECURSIVE ChainFrom(_, _)
\* the nodes reached from n through next, trailer included
ChainFrom(hp, n) ==
    IF n = NULL THEN <<>> ELSE <<n>> \o ChainFrom(hp, hp[n].next)

RECURSIVE NodesFromBin(_, _, _, _)
\* for(i..bins) for(j = map[i]; j != nullptr; j = j->next): the scan order
NodesFromBin(hp, mp, B, i) ==
    IF i >= B THEN <<>>
    ELSE ChainFrom(hp, mp[i]) \o NodesFromBin(hp, mp, B, i + 1)

\* the nodes a scan with "j->next != nullptr" visits
LiveNodes(hp, mp, B) ==
    SelectSeq(NodesFromBin(hp, mp, B, 0), LAMBDA j : hp[j].next # NULL)

\* ------------------------------------------------------- private helpers
abs(x) == IF x < 0 THEN -x ELSE x

\* abs(hash(key)) % bins, where abs(hash(key)) is an int and bins is not 0
hash_compress(h, B, key) == abs(h[key]) % B

\* a % b of C for b > 0: the quotient is truncated, so the sign is that of a
rem(a, b) == IF a < 0 /\ a % b # 0 THEN (a % b) - b ELSE a % b

\* hash_compress(key) divides by zero or takes abs of INT_MIN, which is no int
compress_undefined(h, B, key) == B = 0 \/ h[key] = INT_MIN

find_key(hp, mp, B, key) ==
    LET hits == SelectSeq(NodesFromBin(hp, mp, B, 0), LAMBDA j : hp[j].key = key)
    IN  IF hits = <<>> THEN NULL ELSE Head(hits)

has_key(hp, mp, B, key) ==
    LET live == LiveNodes(hp, mp, B)
    IN  \E p \in 1..Len(live) : hp[live[p]].key = key

size == used

empty == used = 0

RECURSIVE NewBins(_, _)
\* map = new LN*[n]; map[i] = new LN() for each i
NewBins(hp, n) ==
    IF n = 0 THEN [heap |-> hp, map |-> [i \in {} |-> NULL]]
    ELSE LET r == NewBins(hp, n - 1)
             id == NewNode(r.heap)
         IN  [heap |-> r.heap @@ (id :> TrailerNode),
              map  |-> r.map @@ ((n - 1) :> id)]

RECURSIVE Rehouse(_, _, _, _, _)
\* the copy loop of ensure_load_threshold over the old nodes, j != nullptr
Rehouse(h, hp, mp, B, nodes) ==
    IF nodes = <<>> THEN [heap |-> hp, map |-> mp]
    ELSE LET j == Head(nodes)
             idx == hash_compress(h, B, hp[j].key)
             id == NewNode(hp)
         IN  Rehouse(h,
                     hp @@ (id :> [key |-> hp[j].key, val |-> hp[j].val,
                                   next |-> mp[idx]]),
                     [mp EXCEPT ![idx] = id], B, Tail(nodes))

\* new_used / bins <= load_threshold, with the int division of the code
WithinThreshold(lt, B, new_used) == 4 * (new_used \div B) <= lt

ensure_load_threshold(h, lt, hp, mp, B, new_used) ==
    IF WithinThreshold(lt, B, new_used)
    THEN [heap |-> hp, map |-> mp, bins |-> B]
    ELSE LET fresh == NewBins(hp, 2 * B)
             moved == Rehouse(h, fresh.heap, fresh.map, 2 * B,
                              NodesFromBin(hp, mp, B, 0))
         IN  [heap |-> moved.heap, map |-> moved.map, bins |-> 2 * B]

RECURSIVE Reach(_, _)
\* the nodes some still usable pointer leads to; the rest was leaked
Reach(hp, roots) ==
    LET live == roots \cap DOMAIN hp
        more == {hp[n].next : n \in live} \ ({NULL} \cup roots)
    IN  IF more = {} THEN live ELSE Reach(hp, roots \cup more)

RECURSIVE Ascending(_)
Ascending(S) ==
    IF S = {} THEN <<>>
    ELSE LET x == CHOOSE y \in S : \A z \in S : y <= z
         IN  <<x>> \o Ascending(S \ {x})

\* An address is only an identity.  After a call the nodes are renamed in
\* scan order, the nodes that were leaked but that a usable iterator still
\* reaches after them; the nodes nothing usable reaches are dropped, and a
\* pointer to a deleted or dropped node becomes STALE.
Collect(hp, mp, B, its, mc) ==
    LET order == NodesFromBin(hp, mp, B, 0)
        inTable == {order[p] : p \in 1..Len(order)}
        usable == {its[i].second : i \in {x \in Iters :
                      its[x].made /\ its[x].expected_mod_count = mc}}
        extra == Ascending(Reach(hp, usable \ {NULL, STALE}) \ inTable)
        all == order \o extra
        ren(n) == IF n = NULL THEN NULL
                  ELSE IF \E p \in 1..Len(all) : all[p] = n
                  THEN CHOOSE p \in 1..Len(all) : all[p] = n
                  ELSE STALE
    IN  [heap  |-> [p \in 1..Len(all) |-> [hp[all[p]] EXCEPT !.next = ren(@)]],
         map   |-> [i \in 0..(B - 1) |-> ren(mp[i])],
         iters |-> [i \in Iters |-> [its[i] EXCEPT !.second = ren(@)]]]

\* ------------------------------------------------------------- commands
\* put(key, value) runs into an undefined hash_compress: for key itself, or,
\* when it doubles the bins, for the key of a node it moves
put_undefined(h, lt, hp, mp, B, u, key) ==
    \/ compress_undefined(h, B, key)
    \/ /\ ~has_key(hp, mp, B, key)
       /\ ~WithinThreshold(lt, B, u + 1)
       /\ \E p \in 1..Len(NodesFromBin(hp, mp, B, 0)) :
              h[hp[NodesFromBin(hp, mp, B, 0)[p]].key] = INT_MIN

\* put without its ++mod_count: an insertion no iterator could detect
put_keeps_mod_count(h, lt, hp, mp, B, u, mc, key, value) ==
    LET hash_index == hash_compress(h, B, key)
    IN  IF has_key(hp, mp, B, key)
        THEN LET found_key == find_key(hp, mp, B, key)
             IN  [heap |-> [hp EXCEPT ![found_key].val = value], map |-> mp,
                  bins |-> B, used |-> u, mod_count |-> mc,
                  ret |-> hp[found_key].val]
        ELSE LET r == ensure_load_threshold(h, lt, hp, mp, B, u + 1)
                 id == NewNode(r.heap)
                 hp2 == r.heap @@ (id :> [key |-> key, val |-> value,
                                          next |-> r.map[hash_index]])
                 mp2 == [r.map EXCEPT ![hash_index] = id]
             IN  [heap |-> hp2, map |-> mp2, bins |-> r.bins, used |-> u + 1,
                  mod_count |-> mc, ret |-> hp2[mp2[hash_index]].val]

\* T put(const KEY& key, const T& value), as the fields after the call
put(h, lt, hp, mp, B, u, mc, key, value) ==
    LET hash_index == hash_compress(h, B, key)
    IN  IF has_key(hp, mp, B, key)
        THEN LET found_key == find_key(hp, mp, B, key)
             IN  [heap |-> [hp EXCEPT ![found_key].val = value], map |-> mp,
                  bins |-> B, used |-> u, mod_count |-> mc,
                  ret |-> hp[found_key].val]
        ELSE LET r == ensure_load_threshold(h, lt, hp, mp, B, u + 1)
                 id == NewNode(r.heap)
                 hp2 == r.heap @@ (id :> [key |-> key, val |-> value,
                                          next |-> r.map[hash_index]])
                 mp2 == [r.map EXCEPT ![hash_index] = id]
             IN  [heap |-> hp2, map |-> mp2, bins |-> r.bins, used |-> u + 1,
                  mod_count |-> mc + 1, ret |-> hp2[mp2[hash_index]].val]

\* T erase(const KEY& key); exc is "none", "KeyError" or "undefined"
\* ("undefined": *current = *current->next with current->next == nullptr)
erase(hp, mp, B, u, mc, key) ==
    LET current == find_key(hp, mp, B, key)
    IN  IF current = NULL
        THEN [exc |-> "KeyError", heap |-> hp, used |-> u, mod_count |-> mc,
              ret |-> NoVal]
        ELSE IF hp[current].next = NULL
        THEN [exc |-> "undefined", heap |-> hp, used |-> u, mod_count |-> mc,
              ret |-> NoVal]
        ELSE LET to_delete == hp[current].next
             IN  [exc |-> "none",
                  heap |-> [n \in DOMAIN hp \ {to_delete} |->
                               IF n = current THEN hp[to_delete] ELSE hp[n]],
                  used |-> u - 1, mod_count |-> mc + 1,
                  ret |-> hp[current].val]

\* clear that deletes no node: used and mod_count alone are reset
clear_keeps_nodes(hp, mp, B) ==
    [heap |-> hp, map |-> [i \in 0..(B - 1) |-> mp[i]]]

\* void clear(): every node before the trailer of each bin is deleted
clear(hp, mp, B) ==
    LET trailer(i) == LET c == ChainFrom(hp, mp[i]) IN c[Len(c)]
        live == LiveNodes(hp, mp, B)
        deleted == {live[p] : p \in 1..Len(live)}
    IN  [heap |-> [n \in DOMAIN hp \ deleted |-> hp[n]],
         map  |-> [i \in 0..(B - 1) |-> trailer(i)]]

\* ------------------------------------------------------------- iterators
NoIterator == [made |-> FALSE, first |-> -1, second |-> NULL,
               expected_mod_count |-> 0, can_erase |-> TRUE]

Lowest(S) == CHOOSE x \in S : \A y \in S : x <= y

\* Iterator(HashMap* iterate_over, bool from_begin)
Iterator(hp, mp, B, u, mc, from_begin) ==
    LET filled == {i \in 0..(B - 1) : hp[mp[i]].next # NULL}
        cur == IF ~from_begin \/ u = 0 THEN <<-1, NULL>>
               ELSE IF filled = {} THEN <<0, NULL>>   \* Cursor() left as built
               ELSE <<Lowest(filled), mp[Lowest(filled)]>>
    IN  [made |-> TRUE, first |-> cur[1], second |-> cur[2],
         expected_mod_count |-> mc, can_erase |-> TRUE]

\* void advance_cursors(); und: current.second or its next is not a node
advance_cursors(hp, mp, B, first, second) ==
    IF second \notin DOMAIN hp \/ hp[second].next = NULL
    THEN [und |-> TRUE, first |-> first, second |-> second]
    ELSE IF hp[hp[second].next].key # ""
    THEN [und |-> FALSE, first |-> first, second |-> hp[second].next]
    ELSE LET stop(i) == SelectSeq(ChainFrom(hp, mp[i]),
                            LAMBDA j : hp[j].next # NULL /\ hp[j].key # "")
             later == {i \in (first + 1)..(B - 1) : stop(i) # <<>>}
         IN  IF later = {} THEN [und |-> FALSE, first |-> -1, second |-> NULL]
             ELSE [und |-> FALSE, first |-> Lowest(later),
                   second |-> Head(stop(Lowest(later)))]

\* ------------------------------------------------- the caller's records
Call(op, key, val, it, exc, rkey, rval) ==
    [op |-> op, key |-> key, val |-> val, it |-> it, exc |-> exc,
     rkey |-> rkey, rval |-> rval]

\* the keys of the live nodes of each bin, in chain order
Layout(hp, mp, B) ==
    [i \in 0..(B - 1) |->
        LET c == SelectSeq(ChainFrom(hp, mp[i]), LAMBDA j : hp[j].next # NULL)
        IN  [p \in 1..Len(c) |-> hp[c[p]].key]]

\* iterators other than self behind whose back the layout changed
DisturbedBy(hp2, mp2, B2, self) ==
    LET changed == Layout(hp2, mp2, B2) # Layout(heap, map, bins)
    IN  [i \in Iters |-> disturbed[i] \/ (iters[i].made /\ i # self /\ changed)]

\* the fields that hold pointers, after the call
Store(hp, mp, B, its, mc) ==
    LET c == Collect(hp, mp, B, its, mc)
    IN  heap' = c.heap /\ map' = c.map /\ iters' = c.iters

\* the call ran into undefined behaviour: nothing is known from here on
Undefined(op, key, val, it) ==
    /\ ub' = TRUE
    /\ last' = Call(op, key, val, it, "undefined", NoKey, NoVal)
    /\ UNCHANGED <<other, hash, load_threshold, bins, used, mod_count, map, heap,
                   iters, shadow, disturbed>>

\* the call threw before changing anything
Throws(op, key, val, it, exc) ==
    /\ last' = Call(op, key, val, it, exc, NoKey, NoVal)
    /\ UNCHANGED <<other, hash, load_threshold, bins, used, mod_count, map, heap,
                   iters, ub, shadow, disturbed>>

\* ---------------------------------------------------------------- actions
\* the fields after HashMap(initial_bins, the_load_threshold, chash) with
\* chash one of hashes and initial_bins one of initial
HashMap_built(hashes, initial) ==
    /\ hash \in hashes
    /\ load_threshold \in LoadThresholds
    /\ bins \in initial
    /\ used = 0
    /\ mod_count = 0
    /\ iters = [i \in Iters |-> NoIterator]
    /\ heap = NewBins(<<>>, bins).heap
    /\ map = NewBins(<<>>, bins).map
    /\ last = Call("HashMap", NoKey, NoVal, 0, "none", NoKey, NoVal)
    /\ ub = FALSE
    /\ shadow = [k \in Keys |-> NoVal]
    /\ disturbed = [i \in Iters |-> FALSE]

HashMap_bins == HashMap_built(HashFuns, InitBins)

Init == HashMap_bins /\ other = NoTable

\* put(key, value) in a behaviour of at most limit structural mutations
PutWithin(limit, key, value) ==
    /\ ~ub
    /\ IF put_undefined(hash, load_threshold, heap, map, bins, used, key)
       THEN Undefined("put", key, value, 0)
       ELSE LET r == put(hash, load_threshold, heap, map, bins, used,
                         mod_count, key, value)
            IN  /\ r.mod_count <= limit
                /\ r.bins <= MaxBins
                /\ bins' = r.bins
                /\ used' = r.used
                /\ mod_count' = r.mod_count
                /\ Store(r.heap, r.map, r.bins, iters, r.mod_count)
                /\ disturbed' = DisturbedBy(r.heap, r.map, r.bins, 0)
                /\ last' = Call("put", key, value, 0, "none", NoKey, r.ret)
                /\ shadow' = [shadow EXCEPT ![key] = value]
                /\ UNCHANGED <<other, hash, load_threshold, ub>>

Put(key, value) == PutWithin(MaxMod, key, value)

Erase(key) ==
    /\ ~ub
    /\ LET r == erase(heap, map, bins, used, mod_count, key)
       IN  CASE r.exc = "KeyError" -> Throws("erase", key, NoVal, 0, "KeyError")
             [] r.exc = "undefined" -> Undefined("erase", key, NoVal, 0)
             [] OTHER ->
                /\ r.mod_count <= MaxMod
                /\ used' = r.used
                /\ mod_count' = r.mod_count
                /\ Store(r.heap, map, bins, iters, r.mod_count)
                /\ disturbed' = DisturbedBy(r.heap, map, bins, 0)
                /\ last' = Call("erase", key, NoVal, 0, "none", NoKey, r.ret)
                /\ shadow' = [shadow EXCEPT ![key] = NoVal]
                /\ UNCHANGED <<other, hash, load_threshold, bins, ub>>

Clear ==
    /\ ~ub
    /\ mod_count < MaxMod
    /\ LET r == clear(heap, map, bins)
       IN  /\ Store(r.heap, r.map, bins, iters, mod_count + 1)
           /\ disturbed' = DisturbedBy(r.heap, r.map, bins, 0)
    /\ used' = 0
    /\ mod_count' = mod_count + 1
    /\ last' = Call("clear", NoKey, NoVal, 0, "none", NoKey, NoVal)
    /\ shadow' = [k \in Keys |-> NoVal]
    /\ UNCHANGED <<other, hash, load_threshold, bins, ub>>

\* T& operator[](const KEY&): "T empty;" is not initialised for a scalar T
IndexMut(key) ==
    /\ ~ub
    /\ LET current == find_key(heap, map, bins, key)
       IN  IF current # NULL
           THEN /\ last' = Call("index", key, NoVal, 0, "none", NoKey,
                                heap[current].val)
                /\ shadow' = [shadow EXCEPT ![key] =
                                 IF @ = NoVal THEN DefaultValue ELSE @]
                /\ UNCHANGED <<bins, used, mod_count, map, heap, iters,
                               disturbed>>
           ELSE \E empty_value \in Values :
                LET r == put(hash, load_threshold, heap, map, bins, used,
                             mod_count, key, empty_value)
                    found == find_key(r.heap, r.map, r.bins, key)
                IN  /\ r.mod_count <= MaxMod
                    /\ r.bins <= MaxBins
                    /\ bins' = r.bins
                    /\ used' = r.used
                    /\ mod_count' = r.mod_count
                    /\ Store(r.heap, r.map, r.bins, iters, r.mod_count)
                    /\ disturbed' = DisturbedBy(r.heap, r.map, r.bins, 0)
                    /\ last' = Call("index", key, NoVal, 0, "none", NoKey,
                                    r.heap[found].val)
                    /\ shadow' = [shadow EXCEPT ![key] = empty_value]
    /\ UNCHANGED <<other, hash, load_threshold, ub>>

\* const T& operator[](const KEY&) const
IndexConst(key) ==
    /\ ~ub
    /\ LET current == find_key(heap, map, bins, key)
       IN  IF current # NULL
           THEN /\ last' = Call("at", key, NoVal, 0, "none", NoKey,
                                heap[current].val)
                /\ UNCHANGED <<other, hash, load_threshold, bins, used, mod_count, map,
                               heap, iters, ub, shadow, disturbed>>
           ELSE Throws("at", key, NoVal, 0, "KeyError")

\* the iterator call changed only the iterator
OnlyIterator(i, it, op, exc, rkey, rval) ==
    /\ iters' = [iters EXCEPT ![i] = it]
    /\ last' = Call(op, NoKey, NoVal, i, exc, rkey, rval)
    /\ UNCHANGED <<other, hash, load_threshold, bins, used, mod_count, map, heap, ub,
                   shadow, disturbed>>

\* Iterator begin() const
Begin(i) ==
    /\ ~ub
    /\ ~iters[i].made
    /\ iters' = [iters EXCEPT ![i] =
                     Iterator(heap, map, bins, used, mod_count, TRUE)]
    /\ disturbed' = [disturbed EXCEPT ![i] = FALSE]
    /\ last' = Call("begin", NoKey, NoVal, i, "none", NoKey, NoVal)
    /\ UNCHANGED <<other, hash, load_threshold, bins, used, mod_count, map, heap, ub,
                   shadow>>

\* Iterator end() const
End(i) ==
    /\ ~ub
    /\ ~iters[i].made
    /\ iters' = [iters EXCEPT ![i] =
                     Iterator(heap, map, bins, used, mod_count, FALSE)]
    /\ disturbed' = [disturbed EXCEPT ![i] = FALSE]
    /\ last' = Call("end", NoKey, NoVal, i, "none", NoKey, NoVal)
    /\ UNCHANGED <<other, hash, load_threshold, bins, used, mod_count, map, heap, ub,
                   shadow>>

\* Iterator& operator++()
IterInc(i) ==
    /\ ~ub
    /\ iters[i].made
    /\ LET it == iters[i]
           adv == advance_cursors(heap, map, bins, it.first, it.second)
       IN  CASE it.expected_mod_count # mod_count ->
                    Throws("++", NoKey, NoVal, i, "ConcurrentModificationError")
             [] it.expected_mod_count = mod_count /\ it.second = NULL ->
                    OnlyIterator(i, it, "++", "none", NoKey, NoVal)
             [] it.expected_mod_count = mod_count /\ it.second # NULL
                  /\ ~it.can_erase ->
                    OnlyIterator(i, [it EXCEPT !.can_erase = TRUE], "++", "none",
                                 NoKey, NoVal)
             [] it.expected_mod_count = mod_count /\ it.second # NULL
                  /\ it.can_erase /\ adv.und ->
                    Undefined("++", NoKey, NoVal, i)
             [] OTHER ->
                    OnlyIterator(i, [it EXCEPT !.first = adv.first,
                                               !.second = adv.second],
                                 "++", "none", NoKey, NoVal)

\* Entry& operator*() const
IterDeref(i) ==
    /\ ~ub
    /\ iters[i].made
    /\ LET it == iters[i]
       IN  CASE it.expected_mod_count # mod_count ->
                    Throws("*", NoKey, NoVal, i, "ConcurrentModificationError")
             [] it.expected_mod_count = mod_count
                  /\ (~it.can_erase \/ it.second = NULL) ->
                    Throws("*", NoKey, NoVal, i, "IteratorPositionIllegal")
             [] it.expected_mod_count = mod_count /\ it.can_erase
                  /\ it.second # NULL /\ it.second \notin DOMAIN heap ->
                    Undefined("*", NoKey, NoVal, i)
             [] OTHER ->
                    OnlyIterator(i, it, "*", "none", heap[it.second].key,
                                 heap[it.second].val)

\* Entry Iterator::erase()
IterErase(i) ==
    /\ ~ub
    /\ iters[i].made
    /\ LET it == iters[i]
       IN  IF it.expected_mod_count # mod_count
           THEN Throws("it.erase", NoKey, NoVal, i, "ConcurrentModificationError")
           ELSE IF ~it.can_erase \/ it.second = NULL
           THEN Throws("it.erase", NoKey, NoVal, i, "CannotEraseError")
           ELSE IF it.second \notin DOMAIN heap \/ heap[it.second].next = NULL
           THEN Undefined("it.erase", NoKey, NoVal, i)
           ELSE
             LET to_return == heap[it.second]
                 adv == IF heap[heap[it.second].next].next = NULL
                        THEN advance_cursors(heap, map, bins, it.first, it.second)
                        ELSE [und |-> FALSE, first |-> it.first,
                              second |-> it.second]
                 r == erase(heap, map, bins, used, mod_count, to_return.key)
                 moved == [it EXCEPT !.can_erase = FALSE, !.first = adv.first,
                                     !.second = adv.second,
                                     !.expected_mod_count = r.mod_count]
             IN  IF adv.und \/ r.exc # "none"
                 THEN Undefined("it.erase", NoKey, NoVal, i)
                 ELSE /\ r.mod_count <= MaxMod
                      /\ Store(r.heap, map, bins, [iters EXCEPT ![i] = moved],
                               r.mod_count)
                      /\ used' = r.used
                      /\ mod_count' = r.mod_count
                      /\ disturbed' = DisturbedBy(r.heap, map, bins, i)
                      /\ last' = Call("it.erase", NoKey, NoVal, i, "none",
                                      to_return.key, to_return.val)
                      /\ shadow' = [shadow EXCEPT ![to_return.key] = NoVal]
                      /\ UNCHANGED <<other, hash, load_threshold, bins, ub>>

\* current.second == rhs.current.second: the address of a deleted node may
\* have been handed out again, so a stale pointer compares either way
SamePointer(p, q) ==
    IF p = STALE \/ q = STALE THEN BOOLEAN ELSE {p = q}

\* bool operator==(const Iterator& rhs) const, rval 1 for true
IterEq(i, rhs) ==
    /\ ~ub
    /\ iters[i].made /\ iters[rhs].made
    /\ IF iters[i].expected_mod_count # mod_count
       THEN Throws("==", NoKey, NoVal, i, "ConcurrentModificationError")
       ELSE \E same \in SamePointer(iters[i].second, iters[rhs].second) :
                OnlyIterator(i, iters[i], "==", "none", NoKey,
                             IF same THEN 1 ELSE 0)

\* bool operator!=(const Iterator& rhs) const, rval 1 for true
IterNe(i, rhs) ==
    /\ ~ub
    /\ iters[i].made /\ iters[rhs].made
    /\ IF iters[i].expected_mod_count # mod_count
       THEN Throws("!=", NoKey, NoVal, i, "ConcurrentModificationError")
       ELSE \E same \in SamePointer(iters[i].second, iters[rhs].second) :
                OnlyIterator(i, iters[i], "!=", "none", NoKey,
                             IF same THEN 0 ELSE 1)

\* every call, on a table built by the default or the bins constructor
TableNext ==
    \/ \E key \in Keys, value \in Values : Put(key, value)
    \/ \E key \in Keys : Erase(key)
    \/ Clear
    \/ \E key \in Keys : IndexMut(key)
    \/ \E key \in Keys : IndexConst(key)

Spec == Init /\ [][TableNext]_vars

\* put after put, nothing else
PutNext == \E key \in Keys, value \in Values : Put(key, value)

PutSpec == Init /\ [][PutNext]_vars

\* a table filled by put until it holds every key
FillNext == \E key \in Keys, value \in Values : PutWithin(MaxPuts, key, value)

FillSpec == Init /\ [][FillNext]_vars

\* int hash_compress(const KEY& key) const, as put calls it first; rval is
\* the result.  abs(INT_MIN) is undefined: it traps, or negation wraps and
\* yields INT_MIN again.
HashCompress(key) ==
    /\ ~ub
    /\ IF bins = 0
       THEN Undefined("hash_compress", key, NoVal, 0)
       ELSE IF hash[key] = INT_MIN
       THEN \/ Undefined("hash_compress", key, NoVal, 0)
            \/ /\ ub' = TRUE
               /\ last' = Call("hash_compress", key, NoVal, 0, "none", NoKey,
                               rem(INT_MIN, bins))
               /\ UNCHANGED <<other, hash, load_threshold, bins, used,
                              mod_count, map, heap, iters, shadow, disturbed>>
       ELSE /\ last' = Call("hash_compress", key, NoVal, 0, "none", NoKey,
                            hash_compress(hash, bins, key))
            /\ UNCHANGED <<other, hash, load_threshold, bins, used, mod_count,
                           map, heap, iters, ub, shadow, disturbed>>

\* tables of any accepted number of bins, with hash functions whose results
\* range over int: puts, and the bin hash_compress gives for a key
CompressNext ==
    \/ \E key \in Keys : Put(key, 1)
    \/ \E key \in Keys : HashCompress(key)

CompressInit == HashMap_built(IntHashFuns, AcceptedBins) /\ other = NoTable

CompressSpec == CompressInit /\ [][CompressNext]_vars

\* The table's commands with iterators outstanding, on a table with load
\* threshold 1.0.  Iterator 1 is the one the caller walks with; iterator 2 is a
\* second begin() of the same table that the caller erases through and
\* compares with.  Each is constructed once.
IterNext ==
    \/ \E key \in Keys : Put(key, 1)
    \/ \E key \in Keys : Erase(key)
    \/ Clear
    \/ \E key \in Keys : IndexMut(key)
    \/ Begin(1)
    \/ End(1)
    \/ iters[1].made /\ Begin(2)
    \/ IterInc(1)
    \/ IterDeref(1)
    \/ \E i \in Iters : IterErase(i)
    \/ IterEq(1, 2)
    \/ IterNe(1, 2)

IterInit == Init /\ load_threshold = 4

IterSpec == IterInit /\ [][IterNext]_vars

\* ------------------------------------------------------------ two tables
\* a table as HashMap(initial_bins, the_load_threshold, chash) leaves it
EmptyTable(h, lt, n) ==
    [hash |-> h, load_threshold |-> lt, bins |-> n, used |-> 0, mod_count |-> 0,
     map |-> NewBins(<<>>, n).map, heap |-> NewBins(<<>>, n).heap]

\* other.put(key, value)
PutOther(key, value) ==
    /\ ~ub
    /\ other # NoTable
    /\ LET r == put(other.hash, other.load_threshold, other.heap, other.map,
                    other.bins, other.used, other.mod_count, key, value)
           c == Collect(r.heap, r.map, r.bins, [i \in Iters |-> NoIterator],
                        r.mod_count)
       IN  /\ r.mod_count <= MaxMod
           /\ r.bins <= MaxBins
           /\ other' = [other EXCEPT !.heap = c.heap, !.map = c.map,
                                     !.bins = r.bins, !.used = r.used,
                                     !.mod_count = r.mod_count]
           /\ last' = Call("other.put", key, value, 0, "none", NoKey, r.ret)
    /\ UNCHANGED <<hash, load_threshold, bins, used, mod_count, map, heap,
                   iters, ub, shadow, disturbed>>

\* the nodes operator== compares: of each bin the live nodes before the first
\* one whose key is "" (the "break" leaves the bin)
RECURSIVE UpToDefaultKey(_, _)
UpToDefaultKey(hp, chain) ==
    IF chain = <<>> \/ hp[Head(chain)].next = NULL \/ hp[Head(chain)].key = ""
    THEN <<>>
    ELSE <<Head(chain)>> \o UpToDefaultKey(hp, Tail(chain))

RECURSIVE ComparedFromBin(_, _, _, _)
ComparedFromBin(hp, mp, B, i) ==
    IF i >= B THEN <<>>
    ELSE UpToDefaultKey(hp, ChainFrom(hp, mp[i]))
         \o ComparedFromBin(hp, mp, B, i + 1)

\* bool operator==(const HashMap& rhs) const, for this != &rhs; rhs[key] is
\* the const operator[], which throws KeyError
operator_eq(hp, mp, B, u, that) ==
    IF u # that.used THEN [exc |-> "none", ret |-> FALSE]
    ELSE LET inRhs(j) == find_key(that.heap, that.map, that.bins, hp[j].key)
             stops == SelectSeq(ComparedFromBin(hp, mp, B, 0),
                                LAMBDA j : \/ inRhs(j) = NULL
                                           \/ that.heap[inRhs(j)].val # hp[j].val)
         IN  IF stops = <<>> THEN [exc |-> "none", ret |-> TRUE]
             ELSE IF inRhs(Head(stops)) = NULL
             THEN [exc |-> "KeyError", ret |-> FALSE]
             ELSE [exc |-> "none", ret |-> FALSE]

\* *this == other, rval 1 for true
Equals ==
    /\ ~ub
    /\ other # NoTable
    /\ LET r == operator_eq(heap, map, bins, used, other)
       IN  last' = Call("map==", NoKey, NoVal, 0, r.exc, NoKey,
                        IF r.exc # "none" THEN NoVal
                        ELSE IF r.ret THEN 1 ELSE 0)
    /\ UNCHANGED <<other, hash, load_threshold, bins, used, mod_count, map,
                   heap, iters, ub, shadow, disturbed>>

\* *this == *this: "if (this == &rhs) return true"
EqualsSelf ==
    /\ ~ub
    /\ last' = Call("self==", NoKey, NoVal, 0, "none", NoKey, 1)
    /\ UNCHANGED <<other, hash, load_threshold, bins, used, mod_count, map,
                   heap, iters, ub, shadow, disturbed>>

\* two tables of one HashMap type compared: this one is filled by put, then
\* the other one
EqNext ==
    \/ \E key \in Keys : other.mod_count = 0 /\ Put(key, 1)
    \/ \E key \in Keys, value \in Values : PutOther(key, value)
    \/ Equals
    \/ EqualsSelf

EqInit ==
    /\ HashMap_bins
    /\ load_threshold = 4
    /\ hash["a"] = -1
    /\ other \in {EmptyTable(hash, 4, n) : n \in InitBins}

EqSpec == EqInit /\ [][EqNext]_vars

\* ----------------------------------------------------------- constructors
\* template<class T> int undefinedhash(const T& a) {return 0;}: the default of
\* the template argument thash and of the constructor argument chash
undefinedhash == [k \in Keys |-> 0]

\* A pointer to a function is modelled by the function: the hash functions a
\* caller supplies differ from undefinedhash in some value.
HashArgs == HashFuns

\* std::initializer_list<Entry> and Iterable arguments
EntryLists ==
    {<<>>, <<[key |-> "a", val |-> 1]>>,
     <<[key |-> "b", val |-> 1], [key |-> "", val |-> 0]>>}

\* the object before any constructor ran: "int bins = 1; used = 0; mod_count = 0"
NotConstructed ==
    /\ hash = undefinedhash
    /\ load_threshold = 0
    /\ bins = 1
    /\ used = 0
    /\ mod_count = 0
    /\ map = <<>>
    /\ heap = <<>>
    /\ iters = [i \in Iters |-> NoIterator]
    /\ last = Call("none", NoKey, NoVal, 0, "none", NoKey, NoVal)
    /\ ub = FALSE
    /\ shadow = [k \in Keys |-> NoVal]
    /\ disturbed = [i \in Iters |-> FALSE]

RECURSIVE PutEach(_, _, _, _)
\* for (const Entry& m_entry : entries) put(m_entry.first, m_entry.second);
\* t holds heap, map, bins, used and mod_count
PutEach(h, lt, t, entries) ==
    IF entries = <<>> THEN t
    ELSE PutEach(h, lt,
                 put(h, lt, t.heap, t.map, t.bins, t.used, t.mod_count,
                     Head(entries).key, Head(entries).val),
                 Tail(entries))

RECURSIVE ShadowAfter(_, _)
ShadowAfter(sh, entries) ==
    IF entries = <<>> THEN sh
    ELSE ShadowAfter([sh EXCEPT ![Head(entries).key] = Head(entries).val],
                     Tail(entries))

\* the record of a constructor call, with the hash functions it was given
CtorCall(op, th, ch, exc) ==
    [thash |-> th, chash |-> ch] @@ Call(op, NoKey, NoVal, 0, exc, NoKey, NoVal)

\* the two tests every constructor makes on the function it bound
TemplateFunctionError(bound, th, ch) ==
    \/ bound = undefinedhash
    \/ th # undefinedhash /\ ch # undefinedhash /\ th # ch

\* what the default, bins, initializer_list and Iterable constructors do once
\* hash is bound: throw, or allocate n bins and put the entries
Construct(op, th, ch, bound, lt, n, entries) ==
    /\ last.op = "none"
    /\ IF TemplateFunctionError(bound, th, ch)
       THEN /\ last' = CtorCall(op, th, ch, "TemplateFunctionError")
            /\ UNCHANGED <<other, hash, load_threshold, bins, used, mod_count,
                           map, heap, iters, ub, shadow, disturbed>>
       ELSE LET r == PutEach(bound, lt, EmptyTable(bound, lt, n), entries)
            IN  /\ hash' = bound
                /\ load_threshold' = lt
                /\ bins' = r.bins
                /\ used' = r.used
                /\ mod_count' = r.mod_count
                /\ Store(r.heap, r.map, r.bins, iters, r.mod_count)
                /\ last' = CtorCall(op, th, ch, "none")
                /\ shadow' = ShadowAfter(shadow, entries)
                /\ UNCHANGED <<other, ub, disturbed>>

\* HashMap(double the_load_threshold, chash)
HashMap_default(th, ch, lt) ==
    Construct("HashMap()", th, ch,
              IF th # undefinedhash THEN th ELSE ch, lt, 1, <<>>)

\* HashMap(int initial_bins, double the_load_threshold, chash)
HashMap_initial_bins(th, ch, lt, initial_bins) ==
    Construct("HashMap(bins)", th, ch,
              IF th # undefinedhash THEN th ELSE ch, lt, initial_bins, <<>>)

\* HashMap(const std::initializer_list<Entry>& il, the_load_threshold, chash)
HashMap_initializer_list(th, ch, lt, il) ==
    Construct("HashMap(il)", th, ch,
              IF th # undefinedhash THEN th ELSE ch, lt, 1, il)

\* HashMap(const Iterable& i, the_load_threshold, chash).  Its initialiser
\* tests thash against undefinedhash<T>, the instance for the value type:
\* with KEY = std::string and T = int that is another function than any
\* thash, so hash is bound to thash.
HashMap_Iterable(th, ch, lt, i) ==
    Construct("HashMap(Iterable)", th, ch, th, lt, 1, i)

\* one constructor call with any template and constructor argument, then puts
CtorNext ==
    \/ \E th \in HashArgs, ch \in HashArgs, lt \in LoadThresholds :
          HashMap_default(th, ch, lt)
    \/ \E th \in HashArgs, ch \in HashArgs, lt \in LoadThresholds,
          initial_bins \in InitBins :
          HashMap_initial_bins(th, ch, lt, initial_bins)
    \/ \E th \in HashArgs, ch \in HashArgs, lt \in LoadThresholds,
          il \in EntryLists :
          HashMap_initializer_list(th, ch, lt, il)
    \/ \E th \in HashArgs, ch \in HashArgs, lt \in LoadThresholds,
          i \in EntryLists :
          HashMap_Iterable(th, ch, lt, i)
    \/ \E key \in Keys :
          /\ last.op # "none" /\ last.exc # "TemplateFunctionError"
          /\ Put(key, 1)

CtorInit == NotConstructed /\ other = NoTable

CtorSpec == CtorInit /\ [][CtorNext]_vars

\* ------------------------------------------------------ copy construction
RECURSIVE Walk(_, _, _, _, _, _)
\* the entries dereferenced by for(it = begin(); it != end(); ++it), from the
\* cursor (first, second) on; fuel bounds the walk by the number of nodes
Walk(hp, mp, B, first, second, fuel) ==
    IF second = NULL \/ fuel = 0 THEN <<>>
    ELSE LET adv == advance_cursors(hp, mp, B, first, second)
         IN  <<[key |-> hp[second].key, val |-> hp[second].val]>> \o
             (IF adv.und THEN <<>>
              ELSE Walk(hp, mp, B, adv.first, adv.second, fuel - 1))

RECURSIVE copy_list(_, _, _)
\* LN* copy_list(LN* l) const: the new nodes are added to hp
copy_list(hp, src, l) ==
    IF src[l].next = NULL
    THEN [heap |-> hp @@ (NewNode(hp) :> TrailerNode), head |-> NewNode(hp)]
    ELSE LET rest == copy_list(hp, src, src[l].next)
             id == NewNode(rest.heap)
         IN  [heap |-> rest.heap @@ (id :> [key |-> src[l].key,
                                            val |-> src[l].val,
                                            next |-> rest.head]),
              head |-> id]

RECURSIVE copy_hash_table(_, _, _, _, _)
\* LN** copy_hash_table(LN** ht, int bins) const, starting at bin i
copy_hash_table(hp, mp, src, ht, i) ==
    IF i >= Cardinality(DOMAIN ht) THEN [heap |-> hp, map |-> mp]
    ELSE LET c == copy_list(hp, src, ht[i])
         IN  copy_hash_table(c.heap, [mp EXCEPT ![i] = c.head], src, ht, i + 1)

\* the entries for (const Entry& m_entry : t) visits in a table t
TraversalOf(t) ==
    LET it == Iterator(t.heap, t.map, t.bins, t.used, t.mod_count, TRUE)
    IN  Walk(t.heap, t.map, t.bins, it.first, it.second,
             Cardinality(DOMAIN t.heap))

\* HashMap(const HashMap& to_copy, double the_load_threshold, chash) with
\* to_copy = other, a table of the same type: its hash is thash if thash is
\* supplied
HashMap_copy(th, ch, lt) ==
    /\ heap = <<>> /\ last.exc # "TemplateFunctionError"
    /\ other # NoTable
    /\ th = undefinedhash \/ other.hash = th
    /\ LET first_bound == IF th # undefinedhash THEN th ELSE ch
           bound == IF first_bound = undefinedhash THEN ch ELSE first_bound
           built == EmptyTable(bound, lt, other.bins)
           put_all == PutEach(bound, lt, built, TraversalOf(other))
           copied == copy_hash_table(built.heap, built.map, other.heap,
                                     other.map, 0)
       IN  IF th # undefinedhash /\ ch # undefinedhash /\ th # ch
           THEN /\ last' = CtorCall("HashMap(copy)", th, ch,
                                    "TemplateFunctionError")
                /\ UNCHANGED <<other, hash, load_threshold, bins, used,
                               mod_count, map, heap, iters, ub, shadow,
                               disturbed>>
           ELSE /\ hash' = bound
                /\ load_threshold' = lt
                /\ IF bound # other.hash
                   THEN /\ put_all.bins <= MaxBins
                        /\ bins' = put_all.bins
                        /\ used' = Len(TraversalOf(other))
                        /\ mod_count' = put_all.mod_count
                        /\ Store(put_all.heap, put_all.map, put_all.bins, iters,
                                 put_all.mod_count)
                   ELSE /\ bins' = other.bins
                        /\ used' = other.used
                        /\ mod_count' = 0
                        /\ Store(copied.heap, copied.map, other.bins, iters, 0)
                /\ last' = CtorCall("HashMap(copy)", th, ch, "none")
                /\ shadow' = ShadowAfter(shadow, TraversalOf(other))
                /\ UNCHANGED <<other, ub, disturbed>>

\* a table is filled by put and then copy-constructed from; puts on the copy
CopyNext ==
    \/ \E key \in Keys, value \in Values :
          /\ heap = <<>> /\ last.exc # "TemplateFunctionError"
          /\ PutOther(key, value)
    \/ \E th \in HashArgs, ch \in HashArgs, lt \in LoadThresholds :
          HashMap_copy(th, ch, lt)
    \/ \E key \in Keys : heap # <<>> /\ Put(key, 1)

CopyInit ==
    /\ NotConstructed
    /\ other \in {EmptyTable(h, 4, n) :
                     h \in HashArgs \ {undefinedhash}, n \in InitBins}

CopySpec == CopyInit /\ [][CopyNext]_vars

\* ------------------------------------------------------------- assignment
\* the value stored under key in a live node, NoVal if there is none
ValueOf(hp, mp, B, key) ==
    LET hits == SelectSeq(LiveNodes(hp, mp, B), LAMBDA j : hp[j].key = key)
    IN  IF hits = <<>> THEN NoVal ELSE hp[Head(hits)].val

\* HashMap& operator=(const HashMap& rhs) with rhs = other: the old array and
\* its nodes are not deleted, and mod_count is not touched
Assign ==
    /\ ~ub
    /\ other # NoTable
    /\ LET fresh == NewBins(heap, other.bins)
           copied == copy_hash_table(fresh.heap, fresh.map, other.heap,
                                     other.map, 0)
       IN  /\ Store(copied.heap, copied.map, other.bins, iters, mod_count)
           /\ disturbed' = DisturbedBy(copied.heap, copied.map, other.bins, 0)
    /\ load_threshold' = other.load_threshold
    /\ bins' = other.bins
    /\ used' = other.used
    /\ hash' = other.hash
    /\ last' = Call("=", NoKey, NoVal, 0, "none", NoKey, NoVal)
    /\ shadow' = [k \in Keys |->
                     ValueOf(other.heap, other.map, other.bins, k)]
    /\ UNCHANGED <<other, mod_count, ub>>

\* a = a: "if (this == &rhs) return *this"
AssignSelf ==
    /\ ~ub
    /\ last' = Call("self=", NoKey, NoVal, 0, "none", NoKey, NoVal)
    /\ UNCHANGED <<other, hash, load_threshold, bins, used, mod_count, map,
                   heap, iters, ub, shadow, disturbed>>

\* the other table is filled, then this one is used with an iterator
\* outstanding and is assigned the other one
AssignNext ==
    \/ \E key \in Keys : Put(key, 1)
    \/ \E key \in Keys :
          /\ last.op \in {"HashMap", "other.put"}
          /\ PutOther(key, 1)
    \/ Begin(1)
    \/ IterInc(1)
    \/ IterDeref(1)
    \/ IterErase(1)
    \/ Assign
    \/ AssignSelf

AssignInit ==
    /\ HashMap_bins
    /\ load_threshold = 4
    /\ hash["a"] = -1 /\ hash[""] = 0
    /\ other \in {EmptyTable(hash, 4, n) : n \in InitBins}

AssignSpec == AssignInit /\ [][AssignNext]_vars

\* ------------------------------------------------------ what callers see
\* how many live nodes hold the entry (key, val)
Copies(hp, mp, B, key, val) ==
    Len(SelectSeq(LiveNodes(hp, mp, B),
                  LAMBDA j : hp[j].key = key /\ hp[j].val = val))

Traversal ==
    LET it == Iterator(heap, map, bins, used, mod_count, TRUE)
    IN  Walk(heap, map, bins, it.first, it.second, Cardinality(DOMAIN heap))

RECURSIVE EraseWalk(_, _, _, _, _, _, _, _, _)
\* for(it = begin(); it != end(); ++it) { *it; if (its key is in E) it.erase(); }
\* from the cursor (first, second) on: the entries dereferenced, the heap and
\* used it leaves, and whether it ran into undefined behaviour
EraseWalk(hp, mp, B, u, mc, first, second, E, fuel) ==
    IF second = NULL \/ fuel = 0
    THEN [und |-> fuel = 0, seen |-> <<>>, heap |-> hp, used |-> u]
    ELSE IF second \notin DOMAIN hp
    THEN [und |-> TRUE, seen |-> <<>>, heap |-> hp, used |-> u]
    ELSE
      LET e == [key |-> hp[second].key, val |-> hp[second].val]
          step == advance_cursors(hp, mp, B, first, second)
          r == erase(hp, mp, B, u, mc, e.key)
          adv == IF hp[second].next # NULL /\ hp[hp[second].next].next = NULL
                 THEN step
                 ELSE [und |-> hp[second].next = NULL, first |-> first,
                       second |-> second]
          rest == IF e.key \in E
                  THEN IF adv.und \/ r.exc # "none"
                       THEN [und |-> TRUE, seen |-> <<>>, heap |-> hp, used |-> u]
                       ELSE EraseWalk(r.heap, mp, B, r.used, r.mod_count,
                                      adv.first, adv.second, E, fuel - 1)
                  ELSE IF step.und
                       THEN [und |-> TRUE, seen |-> <<>>, heap |-> hp, used |-> u]
                       ELSE EraseWalk(hp, mp, B, u, mc, step.first, step.second,
                                      E, fuel - 1)
      IN  [rest EXCEPT !.seen = <<e>> \o @]

\* the traversal that erases the entries whose key is in E
ErasingTraversal(E) ==
    LET it == Iterator(heap, map, bins, used, mod_count, TRUE)
    IN  EraseWalk(heap, map, bins, used, mod_count, it.first, it.second, E,
                  Cardinality(DOMAIN heap) + 1)

Present == {k \in Keys : shadow[k] # NoVal}

IterOps == {"++", "*", "it.erase", "==", "!="}

\* ------------------------------------------------------------ the claims

\* C1: after put calls only, on a table that started empty, size() is the
\* number of distinct keys that were passed to put.
C1_SizeIsDistinctKeys == size = Cardinality(Present)

\* C2: put(k, v) immediately followed by an indexed read of k, const or
\* mutable, returns v.
C2_PutThenRead ==
    [][(last.op = "put" /\ last'.op \in {"at", "index"} /\ last'.key = last.key)
       => (last'.exc = "none" /\ last'.rval = last.val)]_vars

\* C3: put(k, v1) followed by put(k, v2) returns v1 from the second call and
\* leaves size() as the first call left it.
C3_SecondPutReturnsFirst ==
    [][(last.op = "put" /\ last'.op = "put" /\ last'.key = last.key)
       => (last'.rval = last.val /\ used' = used)]_vars

\* C4: has_key(k) is true exactly for the keys inserted and not removed since.
C4_HasKeyIffPresent ==
    ~ub => \A k \in Keys : has_key(heap, map, bins, k) <=> k \in Present

\* C5: the const indexed read of a key that is not in the table fails with
\* KeyError and leaves the table unchanged.
C5_ReadAbsentIsKeyError ==
    [][(last'.op = "at" /\ ~has_key(heap, map, bins, last'.key))
       => (last'.exc = "KeyError"
           /\ UNCHANGED <<bins, used, mod_count, map, heap>>)]_vars

\* C6: erase(k) right after put(k, v) returns v, decreases size() by one,
\* makes has_key(k) false and leaves every other key with its value.
C6_EraseAfterPut ==
    [][(last.op = "put" /\ last'.op = "erase" /\ last'.key = last.key)
       => (/\ last'.exc = "none"
           /\ last'.rval = last.val
           /\ used' = used - 1
           /\ ~has_key(heap', map', bins', last.key)
           /\ \A k \in Keys \ {last.key} :
                 ValueOf(heap', map', bins', k) = ValueOf(heap, map, bins, k))]_vars

\* C7: erase(k) of a key that is not in the table fails with KeyError and
\* leaves used, mod_count and every chain unchanged.
C7_EraseAbsentIsKeyError ==
    [][(last'.op = "erase" /\ ~has_key(heap, map, bins, last'.key))
       => (last'.exc = "KeyError"
           /\ UNCHANGED <<bins, used, mod_count, map, heap>>)]_vars

\* C8: when a put of a new key doubles the bins, the live entries after it are
\* the live entries before it and the new entry, each in as many nodes as
\* before (the new one in one node).
C8_ResizeKeepsEntries ==
    [][(last'.op = "put" /\ bins' # bins)
       => \A k \in Keys, v \in Values :
             Copies(heap', map', bins', k, v) =
                 Copies(heap, map, bins, k, v)
                 + (IF k = last'.key /\ v = last'.val THEN 1 ELSE 0)]_vars

C10_DisturbedIteratorThrows ==
    [][\A i \in Iters :
          (disturbed[i] /\ last'.it = i /\ last'.op \in IterOps)
          => (/\ last'.exc = "ConcurrentModificationError"
              /\ UNCHANGED <<iters, bins, used, mod_count, map, heap>>)]_vars

\* an iterator call that threw because another iterator erased behind it
C10_Witness ==
    /\ last.op = "*" /\ last.it = 1
    /\ last.exc = "ConcurrentModificationError"
    /\ disturbed[1]
    /\ iters[2].made /\ ~iters[2].can_erase

\* C11: erase-at-cursor through an iterator whose snapshot is up to date: at
\* a position that can be erased it succeeds, returns the entry under the
\* cursor, removes that key and no other and decreases size() by one; right
\* after an erase without ++, or on an exhausted iterator, it fails with
\* CannotEraseError and leaves the table unchanged.
C11_EraseAtCursor ==
    [][\A i \in Iters :
          (last'.op = "it.erase" /\ last'.it = i
             /\ iters[i].expected_mod_count = mod_count)
          => IF iters[i].can_erase /\ iters[i].second \in DOMAIN heap
             THEN LET e == heap[iters[i].second]
                  IN  /\ last'.exc = "none"
                      /\ last'.rkey = e.key /\ last'.rval = e.val
                      /\ used' = used - 1
                      /\ ~has_key(heap', map', bins', e.key)
                      /\ \A k \in Keys \ {e.key} :
                            ValueOf(heap', map', bins', k) =
                                ValueOf(heap, map, bins, k)
             ELSE /\ last'.exc = "CannotEraseError"
                  /\ UNCHANGED <<bins, used, mod_count, map, heap>>]_vars

\* C12: a traversal from begin() that erases at the cursor the entries of any
\* set of keys (++ after each erase) runs to the end without an error,
\* dereferences every entry the table held at begin() exactly once, and leaves
\* in the table exactly the entries it did not erase, with size() to match.
C12_EraseDuringTraversal ==
    ~ub => \A E \in SUBSET Keys :
              LET t == ErasingTraversal(E)
                  kept == {k \in Keys : has_key(heap, map, bins, k)} \ E
              IN  /\ ~t.und
                  /\ \A k \in Keys :
                        Len(SelectSeq(t.seen, LAMBDA e : e.key = k)) =
                            (IF has_key(heap, map, bins, k) THEN 1 ELSE 0)
                  /\ \A p \in 1..Len(t.seen) :
                        t.seen[p].val = ValueOf(heap, map, bins, t.seen[p].key)
                  /\ \A k \in Keys :
                        ValueOf(t.heap, map, bins, k) =
                            (IF k \in kept THEN ValueOf(heap, map, bins, k)
                             ELSE NoVal)
                  /\ t.used = Cardinality(kept)

\* the key-value pairs a table holds in live nodes
Entries(hp, mp, B) ==
    {[key |-> hp[j].key, val |-> hp[j].val] :
        j \in {LiveNodes(hp, mp, B)[p] : p \in 1..Len(LiveNodes(hp, mp, B))}}

\* C13: a == b returns a boolean: true when a and b hold the same set of
\* key-value pairs, false otherwise, whatever their bins and histories.
C13_EqualsIffSameEntries ==
    [][last'.op = "map=="
       => /\ last'.exc = "none"
          /\ (last'.rval = 1) <=> (Entries(heap, map, bins) =
                                   Entries(other.heap, other.map, other.bins))]_vars

\* C14: the mutable operator[](k) on a key that is not in the table inserts k
\* with the value T(): afterwards has_key(k) holds, size() is one more and
\* mod_count is greater; on a key that is in the table it changes nothing and
\* refers to the value stored for k.
C14_IndexInsertsAbsent ==
    [][last'.op = "index"
       => IF ~has_key(heap, map, bins, last'.key)
          THEN /\ has_key(heap', map', bins', last'.key)
               /\ ValueOf(heap', map', bins', last'.key) = DefaultValue
               /\ last'.rval = DefaultValue
               /\ used' = used + 1
               /\ mod_count' > mod_count
          ELSE /\ UNCHANGED <<bins, used, mod_count, map, heap>>
               /\ last'.rval = ValueOf(heap, map, bins, last'.key)]_vars

\* C15: clear() leaves in every bin only its trailer, so that has_key is
\* false for every key, size() is 0 and empty() is true; it leaves bins as
\* it was and increases mod_count by exactly one.
C15_ClearEmptiesTable ==
    [][last'.op = "clear"
       => /\ \A i \in 0..(bins' - 1) : heap'[map'[i]].next = NULL
          /\ \A k \in Keys : ~has_key(heap', map', bins', k)
          /\ used' = 0
          /\ bins' = bins
          /\ mod_count' = mod_count + 1]_vars

\* clear() was called on a table with an entry that an iterator pointed to
C15_Witness ==
    /\ last.op = "clear"
    /\ iters[1].made /\ iters[1].second = STALE
    /\ used = 0 /\ empty

CtorOps == {"HashMap()", "HashMap(bins)", "HashMap(il)", "HashMap(Iterable)"}

\* C16: the default, bins, initializer-list and Iterable constructors fail
\* with TemplateFunctionError exactly when neither thash nor chash is
\* supplied or both are supplied and differ; otherwise the table is built and
\* its hash is the one function supplied.
C16_ConstructorHash ==
    [][last'.op \in CtorOps
       => LET th == last'.thash
              ch == last'.chash
              neither == th = undefinedhash /\ ch = undefinedhash
              differ == th # undefinedhash /\ ch # undefinedhash /\ th # ch
          IN  IF neither \/ differ
              THEN last'.exc = "TemplateFunctionError"
              ELSE /\ last'.exc = "none"
                   /\ hash' = (IF th # undefinedhash THEN th ELSE ch)]_vars

\* C17: copy construction with neither thash nor chash supplied does not
\* fail; the new table is bound to the source's hash function and holds
\* exactly the source's key-value pairs, with the same size().
C17_CopyTakesSourceHash ==
    [][(last'.op = "HashMap(copy)" /\ last'.thash = undefinedhash
          /\ last'.chash = undefinedhash)
       => /\ last'.exc = "none"
          /\ hash' = other.hash
          /\ Entries(heap', map', bins') =
                 Entries(other.heap, other.map, other.bins)
          /\ used' = other.used]_vars

\* C18: dereferencing an iterator whose snapshot is up to date throws
\* IteratorPositionIllegal exactly when the iterator is exhausted or has
\* erased at its cursor and was not advanced since; otherwise it returns the
\* entry of the live node under the cursor.
C18_DerefPosition ==
    [][\A i \in Iters :
          (last'.op = "*" /\ last'.it = i
             /\ iters[i].expected_mod_count = mod_count)
          => IF iters[i].second = NULL \/ ~iters[i].can_erase
             THEN last'.exc = "IteratorPositionIllegal"
             ELSE /\ last'.exc = "none"
                  /\ \E p \in 1..Len(LiveNodes(heap, map, bins)) :
                        LiveNodes(heap, map, bins)[p] = iters[i].second
                  /\ last'.rkey = heap[iters[i].second].key
                  /\ last'.rval = heap[iters[i].second].val]_vars

\* C19: between calls, used is the number of nodes before the trailers,
\* counted over all bins.
C19_UsedCountsLiveNodes ==
    ~ub => used = Len(LiveNodes(heap, map, bins))

\* C20: between calls, every node before the trailer of bin i has a key with
\* hash_compress(key) = i under the current bins.
C20_NodesInTheirBin ==
    ~ub => \A i \in 0..(bins - 1) :
              \A p \in 1..Len(ChainFrom(heap, map[i])) :
                  LET j == ChainFrom(heap, map[i])[p]
                  IN  heap[j].next # NULL
                      => hash_compress(hash, bins, heap[j].key) = i

\* every bin heads a chain of nodes of the heap that ends in a node with
\* next == nullptr, and no node before that one has next == nullptr
OneTrailerPerBin(hp, mp, B) ==
    \A i \in 0..(B - 1) :
        /\ mp[i] \in DOMAIN hp
        /\ LET c == ChainFrom(hp, mp[i])
           IN  /\ Len(c) >= 1
               /\ hp[c[Len(c)]].next = NULL
               /\ \A p \in 1..(Len(c) - 1) : hp[c[p]].next # NULL

\* C21: every call of put, erase, clear and the mutable operator[], a put
\* that doubles the bins and an erase of any key included, completes with
\* every bin 0..bins-1 holding a non-empty chain with exactly one node whose
\* next is nullptr, at its tail.
C21_OneTrailerPerBin ==
    [][last'.op \in {"put", "erase", "clear", "index"}
       => /\ ~ub'
          /\ OneTrailerPerBin(heap', map', bins')]_vars

\* C22: after every put or mutable operator[] that inserted a key, the exact
\* ratio used / bins is at most load_threshold (both sides in quarters).
C22_LoadWithinThreshold ==
    [][(last'.op \in {"put", "index"} /\ used' = used + 1)
       => 4 * used' <= load_threshold' * bins']_vars

\* the calls that never restructure the table
ReadOps == {"at", "begin", "end", "++", "*", "==", "!="}

\* C23: a call whose behaviour is defined increases mod_count exactly when it
\* restructures the table: put and the mutable operator[] on a key that is
\* not in the table, erase of a key that is in it, clear and a successful
\* iterator erase increase it; put and operator[] on a key that is in the
\* table, the const operator[], begin, end and the iterator's ++, *, == and
\* != leave it as it was.
C23_ModCountCountsMutations ==
    [][~ub' =>
         LET present == has_key(heap, map, bins, last'.key)
         IN  /\ last'.op \in {"put", "index"} =>
                  IF present THEN mod_count' = mod_count
                  ELSE mod_count' > mod_count
             /\ last'.op = "erase" =>
                  IF present THEN mod_count' > mod_count
                  ELSE mod_count' = mod_count
             /\ last'.op = "clear" => mod_count' > mod_count
             /\ last'.op = "it.erase" =>
                  IF last'.exc = "none" THEN mod_count' > mod_count
                  ELSE mod_count' = mod_count
             /\ last'.op \in ReadOps => mod_count' = mod_count]_vars

\* C24: bins is at least 1 in every state, whatever initial_bins the bins
\* constructor was given and however often the bins were doubled, and
\* hash_compress(key) returns a bin in 0..bins-1 for every result of hash in
\* the range of int, negative results and INT_MIN included.
C24_CompressInRange ==
    /\ bins >= 1
    /\ last.op = "hash_compress"
          => (last.exc = "none" /\ last.rval \in 0..(bins - 1))

\* C25: a = b with a and b distinct leaves a with exactly the key-value
\* pairs and the size of b, and the next call on an iterator that was made
\* over a before the assignment throws ConcurrentModificationError.
C25_AssignIsMutation ==
    [][/\ last'.op = "="
          => /\ Entries(heap', map', bins') =
                    Entries(other.heap, other.map, other.bins)
             /\ used' = other.used
       /\ (last.op = "=" /\ last'.op \in IterOps /\ iters[last'.it].made)
          => last'.exc = "ConcurrentModificationError"]_vars

====
